---- MODULE Spec2Model ----
(***************************************************************************)
(* NodeModal (src/features/modals/NodeModal/index.tsx): the modal that     *)
(* shows the selected graph node's content and JSON path and lets the user *)
(* edit the content and write it back into the JSON document.              *)
(*                                                                         *)
(* Texts (JavaScript strings) are sequences of lexical tokens; JSON values *)
(* are tagged records.  JSON.parse, JSON.stringify(v, null, 2), template   *)
(* literals and property access are modelled by what they do on these.     *)
(***************************************************************************)
EXTENDS Integers, Sequences, FiniteSets, TLC

\* ------------------------------------------------------------------ bounds

\* Notifications shown before the model stops taking Save clicks.
MaxToasts == 2
\* Largest array index a path segment given to jsonPathToString carries.
MaxIndex == 1
\* Longest path given to jsonPathToString.
MaxPathLen == 3
\* Longest row list given to normalizeNodeData.
MaxRows == 2

\* ------------------------------------------------------------------ texts

\* A token of a text: kind, lexeme, and (for a string literal) its content.
Tok(kind, lexeme, content) == [k |-> kind, s |-> lexeme, t |-> content]
P(c) == Tok("punct", c, <<>>)
NumTok(s) == Tok("num", s, <<>>)
LitTok(s) == Tok("lit", s, <<>>)
\* Characters that form no JSON token (a bare word such as  hello).
Word(s) == Tok("word", s, <<>>)
\* A double-quoted string literal whose content is the text c.
StrTok(c) == Tok("str", "", c)
\* White space: a line break followed by n spaces, or one space.
Newline(n) == Tok("ws", "\n", [i \in 1..n |-> " "])
Space == Tok("ws", " ", <<>>)

\* Number.prototype.toString on a small non-negative integer.
DigitStr == <<"0", "1", "2", "3", "4", "5", "6", "7", "8", "9">>
NumberToString(i) == DigitStr[i + 1]

\* ----------------------------------------------------------------- values

\* A JavaScript value: t is its type tag, a the lexeme of a number or
\* boolean, txt the content of a string, kids the entries of an object
\* (k the property name, a text) or of an array (k empty).
Val(tag, atom, content, entries) == [t |-> tag, a |-> atom, txt |-> content, kids |-> entries]
Undefined == Val("undefined", "", <<>>, <<>>)
Null == Val("null", "", <<>>, <<>>)
Num(s) == Val("number", s, <<>>, <<>>)
Bool(s) == Val("boolean", s, <<>>, <<>>)
Str(c) == Val("string", "", c, <<>>)
Entry(key, v) == [k |-> key, v |-> v]
Obj(entries) == Val("object", "", <<>>, entries)
Elems(vs) == [i \in 1..Len(vs) |-> Entry(<<>>, vs[i])]
Arr(vs) == Val("array", "", <<>>, Elems(vs))

IsContainer(v) == v.t \in {"object", "array"}

\* A property name that is an array index ("0", "1", ...): CanonicalNumericIndexString.
IsIndexKey(key) == Len(key) = 1 /\ key[1].k = "num" /\ \E i \in 0..9 : DigitStr[i + 1] = key[1].s
IndexOfKey(key) == CHOOSE i \in 0..9 : DigitStr[i + 1] = key[1].s

KeyPos(entries, key) == IF \E i \in 1..Len(entries) : entries[i].k = key THEN CHOOSE i \in 1..Len(entries) : entries[i].k = key ELSE 0

\* Where a new own property lands in an ordinary object's key order: integer
\* keys ascending first, then strings in insertion order.
InsertPos(entries, key) == IF IsIndexKey(key) THEN 1 + Cardinality({i \in 1..Len(entries) : IsIndexKey(entries[i].k) /\ IndexOfKey(entries[i].k) < IndexOfKey(key)}) ELSE Len(entries) + 1

InsertAt(seq, pos, e) == SubSeq(seq, 1, pos - 1) \o <<e>> \o SubSeq(seq, pos, Len(seq))

\* obj[key] = v on an ordinary object: overwrite in place, or create.
ObjectPut(entries, key, v) == IF KeyPos(entries, key) > 0 THEN [entries EXCEPT ![KeyPos(entries, key)].v = v] ELSE InsertAt(entries, InsertPos(entries, key), Entry(key, v))

\* --------------------------------------------------------- JSON.stringify

SepBy(parts, sep) == [i \in 1..Len(parts) |-> IF i = 1 THEN parts[i] ELSE sep \o parts[i]]

RECURSIVE Flatten(_)
Flatten(parts) == IF parts = <<>> THEN <<>> ELSE Head(parts) \o Flatten(Tail(parts))

\* SerializeJSONProperty with gap = 2 spaces, at nesting depth d; <<>> stands
\* for the undefined result (the caller drops the property or writes null).
RECURSIVE Serialize(_, _)
Serialize(v, d) ==
    CASE v.t = "number" -> <<NumTok(v.a)>>
      [] v.t = "boolean" -> <<LitTok(v.a)>>
      [] v.t = "null" -> <<LitTok("null")>>
      [] v.t = "string" -> <<StrTok(v.txt)>>
      [] v.t = "array" ->
           IF v.kids = <<>> THEN <<P("["), P("]")>>
           ELSE LET item(i) == IF v.kids[i].v.t = "undefined" THEN <<LitTok("null")>> ELSE Serialize(v.kids[i].v, d + 1)
                    parts == [i \in 1..Len(v.kids) |-> <<Newline(2 * (d + 1))>> \o item(i)]
                IN <<P("[")>> \o Flatten(SepBy(parts, <<P(",")>>)) \o <<Newline(2 * d), P("]")>>
      [] v.t = "object" ->
           LET shown == SelectSeq(v.kids, LAMBDA e : e.v.t # "undefined")
               parts == [i \in 1..Len(shown) |-> <<Newline(2 * (d + 1)), StrTok(shown[i].k), P(":"), Space>> \o Serialize(shown[i].v, d + 1)]
           IN IF shown = <<>> THEN <<P("{"), P("}")>>
              ELSE <<P("{")>> \o Flatten(SepBy(parts, <<P(",")>>)) \o <<Newline(2 * d), P("}")>>
      [] OTHER -> <<>>

\* JSON.stringify(v, null, 2)
JSONstringify(v) == Serialize(v, 0)

\* ------------------------------------------------------------- JSON.parse

ParseFail == [ok |-> FALSE, v |-> Undefined, next |-> 0]
ParseOk(v, n) == [ok |-> TRUE, v |-> v, next |-> n]

RECURSIVE ParseValue(_, _)
RECURSIVE ParseElements(_, _, _)
RECURSIVE ParseMembers(_, _, _)

\* One JSON value starting at token i of toks (white space already skipped).
ParseValue(toks, i) ==
    IF i > Len(toks) THEN ParseFail
    ELSE LET tok == toks[i] IN
         CASE tok.k = "num" -> ParseOk(Num(tok.s), i + 1)
           [] tok.k = "str" -> ParseOk(Str(tok.t), i + 1)
           [] tok.k = "lit" -> ParseOk(IF tok.s = "null" THEN Null ELSE Bool(tok.s), i + 1)
           [] tok = P("[") -> IF i + 1 <= Len(toks) /\ toks[i + 1] = P("]") THEN ParseOk(Arr(<<>>), i + 2) ELSE ParseElements(toks, i + 1, <<>>)
           [] tok = P("{") -> IF i + 1 <= Len(toks) /\ toks[i + 1] = P("}") THEN ParseOk(Obj(<<>>), i + 2) ELSE ParseMembers(toks, i + 1, <<>>)
           [] OTHER -> ParseFail

ParseElements(toks, i, acc) ==
    LET r == ParseValue(toks, i) IN
    IF ~r.ok \/ r.next > Len(toks) THEN ParseFail
    ELSE IF toks[r.next] = P(",") THEN ParseElements(toks, r.next + 1, Append(acc, r.v))
    ELSE IF toks[r.next] = P("]") THEN ParseOk(Arr(Append(acc, r.v)), r.next + 1)
    ELSE ParseFail

ParseMembers(toks, i, acc) ==
    IF i + 1 > Len(toks) \/ toks[i].k # "str" \/ toks[i + 1] # P(":") THEN ParseFail
    ELSE LET r == ParseValue(toks, i + 2) IN
         IF ~r.ok \/ r.next > Len(toks) THEN ParseFail
         ELSE IF toks[r.next] = P(",") THEN ParseMembers(toks, r.next + 1, ObjectPut(acc, toks[i].t, r.v))
         ELSE IF toks[r.next] = P("}") THEN ParseOk(Obj(ObjectPut(acc, toks[i].t, r.v)), r.next + 1)
         ELSE ParseFail

\* JSON.parse(text): ok = FALSE stands for the SyntaxError it throws.
JSONparse(text) ==
    LET toks == SelectSeq(text, LAMBDA tok : tok.k # "ws")
        r == ParseValue(toks, 1)
    IN IF r.ok /\ r.next = Len(toks) + 1 THEN [ok |-> TRUE, v |-> r.v] ELSE [ok |-> FALSE, v |-> Undefined]

\* ------------------------------------------------------ property access

\* A path segment: a number (an array index) or a string (a property name).
Idx(n) == [num |-> TRUE, i |-> n, s |-> <<>>]
Key(name) == [num |-> FALSE, i |-> 0, s |-> name]

\* ToPropertyKey(seg)
PropertyKey(seg) == IF seg.num THEN <<NumTok(NumberToString(seg.i))>> ELSE seg.s

\* container[key]: the own property, or undefined.
GetProp(v, key) ==
    IF v.t = "object" THEN (IF KeyPos(v.kids, key) > 0 THEN v.kids[KeyPos(v.kids, key)].v ELSE Undefined)
    ELSE IF IsIndexKey(key) /\ IndexOfKey(key) < Len(v.kids) THEN v.kids[IndexOfKey(key) + 1].v
    ELSE Undefined

\* array[key] = v: an index inside the array overwrites, an index past the
\* end grows the array (the skipped slots are holes), any other key is a
\* property that JSON.stringify does not show.
ArrayPut(entries, key, v) ==
    IF ~IsIndexKey(key) THEN entries
    ELSE LET n == IndexOfKey(key) IN
         IF n < Len(entries) THEN [entries EXCEPT ![n + 1].v = v]
         ELSE [i \in 1..(n + 1) |-> IF i <= Len(entries) THEN entries[i] ELSE IF i = n + 1 THEN Entry(<<>>, v) ELSE Entry(<<>>, Undefined)]

\* container[key] = v
SetProp(c, key, v) == IF c.t = "object" THEN Obj(ObjectPut(c.kids, key, v)) ELSE Val("array", "", <<>>, ArrayPut(c.kids, key, v))

Thrown == [ok |-> FALSE, v |-> Undefined]
Done(v) == [ok |-> TRUE, v |-> v]

\* Lines 52-58 on the value `current` refers to, with the segments still to
\* follow: the value after the assignment, or Thrown for the TypeError.
\* undefined and null throw on any property access.  A number, string or
\* boolean yields undefined or another primitive for every read, and the
\* module is strict-mode code, so the final assignment on it throws too.
RECURSIVE AssignAtPath(_, _, _)
AssignAtPath(current, segs, parsedValue) ==
    IF ~IsContainer(current) THEN Thrown
    ELSE IF Len(segs) = 1 THEN Done(SetProp(current, PropertyKey(segs[1]), parsedValue))
    ELSE LET key == PropertyKey(segs[1])
             r == AssignAtPath(GetProp(current, key), Tail(segs), parsedValue)
         IN IF r.ok THEN Done(SetProp(current, key, r.v)) ELSE Thrown

\* ------------------------------------------------------ the pure helpers

\* An optional argument: what === undefined, or the sequence given.
Missing == [defined |-> FALSE, items |-> <<>>]
Given(items) == [defined |-> TRUE, items |-> items]

\* A row of NodeData["text"]: key is null (keyed = FALSE) or a string.
Row(key, value, type) == [keyed |-> TRUE, key |-> key, value |-> value, type |-> type]
KeylessRow(value, type) == [keyed |-> FALSE, key |-> <<>>, value |-> value, type |-> type]

\* row.key in a boolean context: null and "" are falsy.
KeyTruthy(row) == row.keyed /\ row.key # <<>>

\* `${value}` for a row value
TemplateString(v) ==
    CASE v.t = "number" -> <<NumTok(v.a)>>
      [] v.t = "boolean" -> <<LitTok(v.a)>>
      [] v.t = "null" -> <<LitTok("null")>>
      [] v.t = "string" -> v.txt
      [] OTHER -> <<Word("undefined")>>

RECURSIVE CollectRows(_, _)
CollectRows(rows, obj) ==
    IF rows = <<>> THEN obj
    ELSE LET row == Head(rows) IN
         CollectRows(Tail(rows), IF row.type # "array" /\ row.type # "object" /\ KeyTruthy(row) THEN ObjectPut(obj, row.key, row.value) ELSE obj)

normalizeNodeData(nodeRows) ==
    IF ~nodeRows.defined \/ Len(nodeRows.items) = 0 THEN <<P("{"), P("}")>>
    ELSE IF Len(nodeRows.items) = 1 /\ ~KeyTruthy(nodeRows.items[1]) THEN TemplateString(nodeRows.items[1].value)
    ELSE JSONstringify(Obj(CollectRows(nodeRows.items, <<>>)))

\* Array.prototype.join
Join(parts, sep) == Flatten(SepBy(parts, sep))

\* jsonPathToString with the segments joined by a comma.
jsonPathToStringCommaJoin(path) ==
    IF ~path.defined \/ Len(path.items) = 0 THEN <<P("$")>>
    ELSE LET segments == [i \in 1..Len(path.items) |-> IF path.items[i].num THEN <<NumTok(NumberToString(path.items[i].i))>> ELSE <<P("\"")>> \o path.items[i].s \o <<P("\"")>>]
         IN <<P("$"), P("[")>> \o Join(segments, <<P(",")>>) \o <<P("]")>>

jsonPathToString(path) ==
    IF ~path.defined \/ Len(path.items) = 0 THEN <<P("$")>>
    ELSE LET segments == [i \in 1..Len(path.items) |-> IF path.items[i].num THEN <<NumTok(NumberToString(path.items[i].i))>> ELSE <<P("\"")>> \o path.items[i].s \o <<P("\"")>>]
         IN <<P("$"), P("[")>> \o Join(segments, <<P("]"), P("[")>>) \o <<P("]")>>

\* The result of updateJsonAtPath: the text returned, or ok = FALSE for the
\* Error it throws.
Failed == [ok |-> FALSE, text |-> <<>>]
Returned(text) == [ok |-> TRUE, text |-> text]

\* updateJsonAtPath that never parses the new value: it is always stored as a string.
updateJsonAtPathAlwaysString(jsonText, path, newValue) ==
    LET parsedJson == JSONparse(jsonText)
        parsedValue == Str(newValue)
    IN IF ~parsedJson.ok THEN Failed
       ELSE IF ~path.defined \/ Len(path.items) = 0 THEN Returned(JSONstringify(parsedValue))
       ELSE LET r == AssignAtPath(parsedJson.v, path.items, parsedValue)
            IN IF r.ok THEN Returned(JSONstringify(r.v)) ELSE Failed

\* updateJsonAtPath whose root-level branch serializes the wrong variable,
\* the old document.
updateJsonAtPathRootKeepsOld(jsonText, path, newValue) ==
    LET parsedJson == JSONparse(jsonText)
        tried == JSONparse(newValue)
        parsedValue == IF tried.ok THEN tried.v ELSE Str(newValue)
    IN IF ~parsedJson.ok THEN Failed
       ELSE IF ~path.defined \/ Len(path.items) = 0 THEN Returned(JSONstringify(parsedJson.v))
       ELSE LET r == AssignAtPath(parsedJson.v, path.items, parsedValue)
            IN IF r.ok THEN Returned(JSONstringify(r.v)) ELSE Failed

updateJsonAtPath(jsonText, path, newValue) ==
    LET parsedJson == JSONparse(jsonText)
        tried == JSONparse(newValue)
        parsedValue == IF tried.ok THEN tried.v ELSE Str(newValue)
    IN IF ~parsedJson.ok THEN Failed
       ELSE IF ~path.defined \/ Len(path.items) = 0 THEN Returned(JSONstringify(parsedValue))
       ELSE LET r == AssignAtPath(parsedJson.v, path.items, parsedValue)
            IN IF r.ok THEN Returned(JSONstringify(r.v)) ELSE Failed

\* ------------------------------------------------- the stores' contents

ka == <<Word("a")>>
kb == <<Word("b")>>
kc == <<Word("c")>>

\* { "a": 1, "b": { "c": ["2"] } }
DocObject == Obj(<<Entry(ka, Num("1")), Entry(kb, Obj(<<Entry(kc, Arr(<<Str(<<NumTok("2")>>)>>))>>))>>)
\* [ "2", { "a": true } ]
DocArray == Arr(<<Str(<<NumTok("2")>>), Obj(<<Entry(ka, Bool("true"))>>)>>)
\* A text that is not JSON:  {
Malformed == <<P("{")>>

\* The texts the JSON store is given from outside the modal.
Documents == {JSONstringify(DocObject), JSONstringify(DocArray), Malformed}

\* The texts the user types:  7   hi   {"a":[]}
EditTexts == {<<NumTok("7")>>, <<Word("hi")>>, <<P("{"), StrTok(ka), P(":"), P("["), P("]"), P("}")>>}

\* ------------------------------------------------------ the graph store

NoNode == [present |-> FALSE, text |-> Missing, path |-> Missing]

\* The segment that leads from a container to its i-th entry.
SegmentOf(v, i) == IF v.t = "array" THEN Idx(i - 1) ELSE Key(v.kids[i].k)

RECURSIVE Positions(_)
Positions(v) == {<<>>} \cup (IF IsContainer(v) THEN UNION {{<<SegmentOf(v, i)>> \o p : p \in Positions(v.kids[i].v)} : i \in 1..Len(v.kids)} ELSE {})

RECURSIVE ValueAt(_, _)
ValueAt(v, segs) == IF segs = <<>> THEN v ELSE IF IsContainer(v) THEN ValueAt(GetProp(v, PropertyKey(Head(segs))), Tail(segs)) ELSE Undefined

\* The node the graph shows for the value at a position: an object's rows
\* are its properties (a container-valued row carries no value), any other
\* value is one keyless row.
NodeAt(doc, segs) ==
    LET v == ValueAt(doc, segs)
        rowOf(e) == Row(e.k, IF IsContainer(e.v) THEN Undefined ELSE e.v, e.v.t)
    IN [present |-> TRUE,
        text |-> Given(IF v.t = "object" THEN [i \in 1..Len(v.kids) |-> rowOf(v.kids[i])] ELSE <<KeylessRow(v, v.t)>>),
        path |-> Given(segs)]

\* The positions that get a node: objects, and the scalars that are the
\* root or an array element (a scalar property is a row of its object).
NodePositions(doc) == {p \in Positions(doc) : LET v == ValueAt(doc, p) IN v.t = "object" \/ (~IsContainer(v) /\ (p = <<>> \/ ValueAt(doc, SubSeq(p, 1, Len(p) - 1)).t = "array"))}

GraphNodes(text) == IF JSONparse(text).ok THEN {NodeAt(JSONparse(text).v, p) : p \in NodePositions(JSONparse(text).v)} ELSE {}

\* ------------------------------------------------------------ the modal

\* json          the JSON store's text (getJson / setJson)
\* file          the file store: contents and the unsaved-changes flag
\* selectedNode  the graph store's selected node (rows and path), or NoNode
\* opened        the modal's opened prop
\* isEditing, editValue, originalValue   the component's React state
\* toasts        the notifications shown so far, oldest first
\* lastSaved     history: the text of the latest successful Save since the
\*               effect last reset the modal, or the normalized value it set
\* lastEvent     history: the handler that took the latest step
\* call          a helper called on its own: its argument and result
VARIABLES json, file, selectedNode, opened, isEditing, editValue, originalValue, toasts, lastSaved, lastEvent, call

stores == <<json, file>>
modal == <<isEditing, editValue, originalValue>>
vars == <<json, file, selectedNode, opened, isEditing, editValue, originalValue, toasts, lastSaved, lastEvent, call>>

\* No helper call in progress (the helpers are exercised on their own below).
NoCall == [fn |-> "none", arg |-> Missing, ran |-> FALSE, result |-> <<>>]

InitModal ==
    /\ json = JSONstringify(Obj(<<>>))
    /\ file = [contents |-> JSONstringify(Obj(<<>>)), hasChanges |-> FALSE]
    /\ selectedNode = NoNode
    /\ opened = FALSE
    /\ isEditing = FALSE
    /\ editValue = <<>>
    /\ originalValue = <<>>
    /\ toasts = <<>>
    /\ lastSaved = <<>>
    /\ lastEvent = "mount"

Init == InitModal /\ call = NoCall

\* nodeData.text ?? []
OrEmpty(rows) == IF rows.defined THEN rows ELSE Given(<<>>)

\* The effect on [opened, nodeData], run with their new values.
ResetEditing(nowOpened, nodeData) ==
    IF nowOpened /\ nodeData.present
    THEN /\ originalValue' = normalizeNodeData(OrEmpty(nodeData.text))
         /\ editValue' = normalizeNodeData(OrEmpty(nodeData.text))
         /\ isEditing' = FALSE
         /\ lastSaved' = normalizeNodeData(OrEmpty(nodeData.text))
    ELSE UNCHANGED <<originalValue, editValue, isEditing, lastSaved>>

\* The stores are given a document from outside the modal.
LoadDocument(text) ==
    /\ json' = text
    /\ file' = [contents |-> text, hasChanges |-> FALSE]
    /\ lastEvent' = "load"
    /\ UNCHANGED <<selectedNode, opened, isEditing, editValue, originalValue, toasts, lastSaved, call>>

\* The graph store selects a node of the current document.
SelectNode(node) ==
    /\ node # selectedNode
    /\ selectedNode' = node
    /\ ResetEditing(opened, node)
    /\ lastEvent' = "select"
    /\ UNCHANGED <<json, file, opened, toasts, call>>

Open ==
    /\ ~opened
    /\ opened' = TRUE
    /\ ResetEditing(TRUE, selectedNode)
    /\ lastEvent' = "open"
    /\ UNCHANGED <<json, file, selectedNode, toasts, call>>

Close ==
    /\ opened
    /\ opened' = FALSE
    /\ ResetEditing(FALSE, selectedNode)
    /\ lastEvent' = "close"
    /\ UNCHANGED <<json, file, selectedNode, toasts, call>>

handleEdit ==
    /\ opened /\ ~isEditing
    /\ isEditing' = TRUE
    /\ lastEvent' = "edit"
    /\ UNCHANGED <<json, file, selectedNode, opened, editValue, originalValue, toasts, lastSaved, call>>

\* The Textarea's onChange
onChange(text) ==
    /\ opened /\ isEditing
    /\ editValue' = text
    /\ lastEvent' = "change"
    /\ UNCHANGED <<json, file, selectedNode, opened, isEditing, originalValue, toasts, lastSaved, call>>

\* handleCancel that leaves edit mode without restoring the text.
handleCancelKeepsText ==
    /\ opened /\ isEditing
    /\ isEditing' = FALSE
    /\ lastEvent' = "cancel"
    /\ UNCHANGED <<json, file, selectedNode, opened, editValue, originalValue, toasts, lastSaved, call>>

handleCancel ==
    /\ opened /\ isEditing
    /\ editValue' = originalValue
    /\ isEditing' = FALSE
    /\ lastEvent' = "cancel"
    /\ UNCHANGED <<json, file, selectedNode, opened, originalValue, toasts, lastSaved, call>>

\* handleSave that leaves edit mode in a finally block, on failure too.
handleSaveLeavesEditMode ==
    /\ opened /\ isEditing
    /\ Len(toasts) < MaxToasts
    /\ lastEvent' = "save"
    /\ LET updatedJson == updateJsonAtPath(json, selectedNode.path, editValue) IN
       IF updatedJson.ok
       THEN /\ file' = [contents |-> updatedJson.text, hasChanges |-> TRUE]
            /\ json' = updatedJson.text
            /\ originalValue' = editValue
            /\ isEditing' = FALSE
            /\ toasts' = Append(toasts, "success")
            /\ lastSaved' = editValue
            /\ UNCHANGED <<selectedNode, opened, editValue, call>>
       ELSE /\ toasts' = Append(toasts, "error")
            /\ isEditing' = FALSE
            /\ UNCHANGED <<json, file, selectedNode, opened, editValue, originalValue, lastSaved, call>>

\* handleSave that updates the file contents and forgets the JSON store.
handleSaveSkipsSetJson ==
    /\ opened /\ isEditing
    /\ Len(toasts) < MaxToasts
    /\ lastEvent' = "save"
    /\ LET updatedJson == updateJsonAtPath(json, selectedNode.path, editValue) IN
       IF updatedJson.ok
       THEN /\ file' = [contents |-> updatedJson.text, hasChanges |-> TRUE]
            /\ originalValue' = editValue
            /\ isEditing' = FALSE
            /\ toasts' = Append(toasts, "success")
            /\ lastSaved' = editValue
            /\ UNCHANGED <<json, selectedNode, opened, editValue, call>>
       ELSE /\ toasts' = Append(toasts, "error")
            /\ UNCHANGED <<json, file, selectedNode, opened, isEditing, editValue, originalValue, lastSaved, call>>

\* handleSave that leaves edit mode without setOriginalValue(editValue).
handleSaveKeepsOriginal ==
    /\ opened /\ isEditing
    /\ Len(toasts) < MaxToasts
    /\ lastEvent' = "save"
    /\ LET updatedJson == updateJsonAtPath(json, selectedNode.path, editValue) IN
       IF updatedJson.ok
       THEN /\ file' = [contents |-> updatedJson.text, hasChanges |-> TRUE]
            /\ json' = updatedJson.text
            /\ isEditing' = FALSE
            /\ toasts' = Append(toasts, "success")
            /\ lastSaved' = editValue
            /\ UNCHANGED <<selectedNode, opened, editValue, originalValue, call>>
       ELSE /\ toasts' = Append(toasts, "error")
            /\ UNCHANGED <<json, file, selectedNode, opened, isEditing, editValue, originalValue, lastSaved, call>>

handleSave ==
    /\ opened /\ isEditing
    /\ Len(toasts) < MaxToasts
    /\ lastEvent' = "save"
    /\ LET updatedJson == updateJsonAtPath(json, selectedNode.path, editValue) IN
       IF updatedJson.ok
       THEN /\ file' = [contents |-> updatedJson.text, hasChanges |-> TRUE]
            /\ json' = updatedJson.text
            /\ originalValue' = editValue
            /\ isEditing' = FALSE
            /\ toasts' = Append(toasts, "success")
            /\ lastSaved' = editValue
            /\ UNCHANGED <<selectedNode, opened, editValue, call>>
       ELSE /\ toasts' = Append(toasts, "error")
            /\ UNCHANGED <<json, file, selectedNode, opened, isEditing, editValue, originalValue, lastSaved, call>>

Next ==
    \/ \E text \in Documents : LoadDocument(text)
    \/ \E node \in GraphNodes(json) : SelectNode(node)
    \/ Open
    \/ Close
    \/ handleEdit
    \/ \E text \in EditTexts : onChange(text)
    \/ handleCancel
    \/ handleSave

Spec == Init /\ [][Next]_vars

\* ------------------------------------------- the pure helpers on their own

\* Rows as the graph builds them: a keyless row, or a row keyed "", a or b;
\* a number, a string, or a container (which carries no value).
RowValues == {<<Num("1"), "number">>, <<Str(<<Word("x")>>), "string">>, <<Undefined, "object">>, <<Undefined, "array">>}
RowUniverse == {KeylessRow(vt[1], vt[2]) : vt \in RowValues} \cup {Row(key, vt[1], vt[2]) : key \in {<<>>, ka, kb}, vt \in RowValues}
DistinctKeys(rows) == \A i, j \in 1..Len(rows) : (i # j /\ rows[i].keyed /\ rows[j].keyed) => rows[i].key # rows[j].key
RowInputs == {Missing} \cup {Given(rows) : rows \in {r \in UNION {[1..n -> RowUniverse] : n \in 0..MaxRows} : DistinctKeys(r)}}

PathSegments == {Key(ka), Key(kb)} \cup {Idx(n) : n \in 0..MaxIndex}
PathInputs == {Missing} \cup {Given(segs) : segs \in UNION {[1..n -> PathSegments] : n \in 0..MaxPathLen}}

InitNormalize == InitModal /\ call \in {[fn |-> "normalizeNodeData", arg |-> rows, ran |-> FALSE, result |-> <<>>] : rows \in RowInputs}

CallNormalize ==
    /\ call.fn = "normalizeNodeData" /\ ~call.ran
    /\ call' = [call EXCEPT !.ran = TRUE, !.result = normalizeNodeData(call.arg)]
    /\ UNCHANGED <<json, file, selectedNode, opened, isEditing, editValue, originalValue, toasts, lastSaved, lastEvent>>

SpecNormalize == InitNormalize /\ [][CallNormalize]_vars

InitPath == InitModal /\ call \in {[fn |-> "jsonPathToString", arg |-> path, ran |-> FALSE, result |-> <<>>] : path \in PathInputs}

CallPathToString ==
    /\ call.fn = "jsonPathToString" /\ ~call.ran
    /\ call' = [call EXCEPT !.ran = TRUE, !.result = jsonPathToString(call.arg)]
    /\ UNCHANGED <<json, file, selectedNode, opened, isEditing, editValue, originalValue, toasts, lastSaved, lastEvent>>

SpecPath == InitPath /\ [][CallPathToString]_vars

\* ------------------------------------------------------------- the claims

\* What a step of Save reads: the parsed document, the path and the value
\* the edited text stands for.
Document == JSONparse(json)
SelectedPath == IF selectedNode.path.defined THEN selectedNode.path.items ELSE <<>>
EditedValue(text) == IF JSONparse(text).ok THEN JSONparse(text).v ELSE Str(text)
SaveStep == lastEvent' = "save"
SaveResult == updateJsonAtPath(json, selectedNode.path, editValue)
LastToast == IF toasts = <<>> THEN "none" ELSE toasts[Len(toasts)]

\* The path leads to a position the document has: every segment names an own
\* property of an object or an index inside an array.
RECURSIVE Locates(_, _)
Locates(v, segs) ==
    IF segs = <<>> THEN TRUE
    ELSE LET key == PropertyKey(Head(segs)) IN
         CASE v.t = "object" -> KeyPos(v.kids, key) > 0 /\ Locates(v.kids[KeyPos(v.kids, key)].v, Tail(segs))
           [] v.t = "array" -> IsIndexKey(key) /\ IndexOfKey(key) < Len(v.kids) /\ Locates(v.kids[IndexOfKey(key) + 1].v, Tail(segs))
           [] OTHER -> FALSE

\* The document v with the value at an existing position replaced by nv.
RECURSIVE Replaced(_, _, _)
Replaced(v, segs, nv) ==
    IF segs = <<>> THEN nv
    ELSE LET key == PropertyKey(Head(segs))
             pos == IF v.t = "object" THEN KeyPos(v.kids, key) ELSE IndexOfKey(key) + 1
         IN [v EXCEPT !.kids[pos].v = Replaced(v.kids[pos].v, Tail(segs), nv)]

\* Two paths lead to positions neither of which lies inside the other
\* (segments compared as the property names they stand for).
Names(p) == [i \in 1..Len(p) |-> PropertyKey(p[i])]
IsPrefix(p, q) == Len(p) <= Len(q) /\ SubSeq(Names(q), 1, Len(p)) = Names(p)
Apart(p, q) == ~IsPrefix(p, q) /\ ~IsPrefix(q, p)

\* C1: a Save on a parseable document with a non-empty path that does not
\* locate an existing position shows an error notification and writes
\* neither the JSON store nor the file store.
ClaimC1 == [][(SaveStep /\ Document.ok /\ SelectedPath # <<>> /\ ~Locates(Document.v, SelectedPath)) => (toasts' = Append(toasts, "error") /\ UNCHANGED stores)]_vars

\* C2: a Save in which updateJsonAtPath throws is all-or-nothing: no store is
\* written, isEditing, editValue and originalValue keep their values (the
\* modal stays in edit mode), and exactly one error notification and no
\* success notification is shown.
SaveFailureIsAtomic == [][(SaveStep /\ ~SaveResult.ok) => (UNCHANGED stores /\ UNCHANGED modal /\ isEditing' /\ toasts' = Append(toasts, "error"))]_vars
FailedSaveSeen == lastEvent = "save" /\ LastToast = "error" /\ Document.ok /\ isEditing /\ editValue \in EditTexts /\ editValue # originalValue /\ selectedNode.present

\* C3: a Save that succeeds writes the same re-serialized text to the file
\* store and the JSON store, marks the file changed, shows a success
\* notification and no error notification, and leaves edit mode with
\* originalValue set to the saved editValue.
SaveSuccessWritesBoth == [][(SaveStep /\ SaveResult.ok) => (json' = SaveResult.text /\ file' = [contents |-> SaveResult.text, hasChanges |-> TRUE] /\ JSONparse(json').ok /\ toasts' = Append(toasts, "success") /\ ~isEditing' /\ originalValue' = editValue /\ editValue' = editValue)]_vars
SuccessfulSaveSeen == lastEvent = "save" /\ LastToast = "success" /\ file.contents = json /\ file.hasChanges /\ ~isEditing /\ originalValue = editValue /\ editValue \in EditTexts

ClaimC5 == [][(SaveStep /\ SelectedPath = <<>>) => (json' = JSONstringify(EditedValue(editValue)) /\ file'.contents = json')]_vars
\* C5 amended: with an empty or absent path and a prior document that is
\* parseable JSON, Save writes the serialization of the edited value (of the
\* raw edited string when it is not JSON) to both stores, the same text for
\* every such prior document.
RootSaveReplacesDocument == [][(SaveStep /\ SelectedPath = <<>> /\ Document.ok) => (json' = JSONstringify(EditedValue(editValue)) /\ file'.contents = json')]_vars
RootReplacedSeen == lastEvent = "save" /\ LastToast = "success" /\ SelectedPath = <<>> /\ selectedNode.present /\ editValue = <<Word("hi")>> /\ json = <<StrTok(<<Word("hi")>>)>> /\ file.contents = json

\* C6: Cancel leaves edit mode, shows the value of the most recent successful
\* Save for the current node (the node's normalized value when none has
\* succeeded since it was opened), and writes to neither store.
CancelRestoresLastSaved == [][lastEvent' = "cancel" => (~isEditing' /\ editValue' = lastSaved /\ UNCHANGED stores)]_vars
CancelAfterSavesSeen == lastEvent = "cancel" /\ toasts = <<"success", "error">> /\ ~isEditing /\ selectedNode.present /\ editValue = lastSaved /\ editValue \in EditTexts /\ editValue # normalizeNodeData(OrEmpty(selectedNode.text))

\* C7: normalizeNodeData yields "{}" for an empty or missing row list, the raw
\* value string for a list of exactly one keyless row, and otherwise the JSON
\* object string whose entries are exactly the keyed rows whose type is
\* neither "array" nor "object".
ClaimC7 ==
    (call.fn = "normalizeNodeData" /\ call.ran) =>
        LET rows == call.arg.items
            kept == {i \in 1..Len(rows) : rows[i].keyed /\ rows[i].type \notin {"array", "object"}}
            out == JSONparse(call.result)
        IN IF ~call.arg.defined \/ rows = <<>> THEN call.result = <<P("{"), P("}")>>
           ELSE IF Len(rows) = 1 /\ ~rows[1].keyed THEN call.result = TemplateString(rows[1].value)
           ELSE out.ok /\ out.v.t = "object" /\ {out.v.kids[i] : i \in 1..Len(out.v.kids)} = {Entry(rows[i].key, rows[i].value) : i \in kept}

\* C8: jsonPathToString renders the empty or absent path as "$" and any other
\* path as "$" followed by one bracketed segment per element in order, string
\* segments in double quotes and number segments bare.
PathRendersBracketed ==
    (call.fn = "jsonPathToString" /\ call.ran) =>
        LET segs == call.arg.items
            bracketed == [i \in 1..Len(segs) |-> <<P("[")>> \o (IF segs[i].num THEN <<NumTok(NumberToString(segs[i].i))>> ELSE <<P("\"")>> \o segs[i].s \o <<P("\"")>>) \o <<P("]")>>]
        IN call.result = <<P("$")>> \o Flatten(bracketed)
PathExampleSeen == call.fn = "jsonPathToString" /\ call.ran /\ call.arg = Given(<<Key(ka), Idx(0)>>) /\ call.result = <<P("$"), P("["), P("\""), Word("a"), P("\""), P("]"), P("["), NumTok("0"), P("]")>>

\* C9: opening the modal on a node of the document, pressing Edit and
\* pressing Save without changing the text writes a document equal to the
\* prior one.
ClaimC9 == [][(SaveStep /\ lastEvent = "edit" /\ Document.ok /\ selectedNode \in GraphNodes(json) /\ editValue = normalizeNodeData(OrEmpty(selectedNode.text))) => (JSONparse(json').ok /\ JSONparse(json').v = Document.v)]_vars

\* C10: whenever the modal is not in edit mode, editValue equals originalValue.
DisplayShowsOriginal == ~isEditing => editValue = originalValue
LeftEditModeSeen == lastEvent = "save" /\ ~isEditing /\ editValue = originalValue /\ editValue \in EditTexts /\ toasts = <<"error", "success">>

====
